---- MODULE Spec2Model ----
(***************************************************************************)
(* CircleBuffer<T> (src/src/lib.rs): a fixed-capacity ring buffer backed   *)
(* by a Vec of up to 2*capacity-1 slots, so that the logical window is     *)
(* always the contiguous range vec[cur_start .. cur_start+capacity).       *)
(*                                                                         *)
(* Rust indices are 0-based, TLA+ sequences 1-based: slot i of the code is *)
(* vec[i+1] here.  T is instantiated with a sized integer type (the tests  *)
(* use i32).  A panic is modelled as a result record with panic = TRUE.    *)
(***************************************************************************)
EXTENDS Integers, Sequences, FiniteSets, TLC

\* ---------------------------------------------------------------- bounds
MaxCap == 3
NumValues == 2
MaxPushes == 6
UsizeBits == 16

\* size_of::<i32>(), the element type of every test
ElemSize == 4

Values == 1..NumValues
Capacities == 0..MaxCap
Builds == {"debug", "release"}
UsizeMax == 2^UsizeBits - 1
IsizeMax == 2^(UsizeBits - 1) - 1

\* capacity, vec, cur_start: the fields of CircleBuffer
\* requested: the argument of with_capacity
\* ctor:      outcome of the construction ("Ok", or the panic that left no
\*            buffer behind)
\* npushes:   number of calls of push since construction (N)
\* pushed:    the values pushed, v1..vN, in push order; recorded only in the
\*            behaviours of SpecPush (recording), where push is the only
\*            mutation
\* model:     the window of the reference bounded FIFO
\* ret:       the last operation and its outcome
VARIABLES capacity, vec, cur_start, requested, ctor, npushes, pushed,
          recording, model, ret
vars == <<capacity, vec, cur_start, requested, ctor, npushes, pushed,
          recording, model, ret>>

\* ------------------------------------------------- results and primitives
Ok(v) == [panic |-> FALSE, val |-> v]
Panic == [panic |-> TRUE, val |-> 0]

\* &s[a..b]: panics unless a <= b <= s.len()
SliceRange(s, a, b) ==
    IF a <= b /\ b <= Len(s) THEN Ok(SubSeq(s, a + 1, b)) ELSE Panic

\* s[i] read: panics unless i < s.len()
SliceGet(s, i) ==
    IF i < Len(s) THEN Ok(s[i + 1]) ELSE Panic

\* s[i] = x: panics unless i < s.len()
SliceSet(s, i, x) ==
    IF i < Len(s) THEN Ok([s EXCEPT ![i + 1] = x]) ELSE Panic

\* Vec::with_capacity(n): panics with "capacity overflow" when the
\* allocation exceeds isize::MAX bytes
VecWithCapacity(n) ==
    IF n * ElemSize > IsizeMax THEN Panic ELSE Ok(<<>>)

\* what construction hands to the caller
Built(self) == [status |-> "Ok", val |-> self]
Aborted(why) ==
    [status |-> why, val |-> [capacity |-> 0, vec |-> <<>>, cur_start |-> 0]]

\* usize arithmetic of `capacity * 2 - 1`: a debug build panics on
\* overflow, a release build wraps modulo 2^UsizeBits
SizingExpr(cap, build) ==
    LET raw == cap * 2 - 1 IN
    IF raw >= 0 /\ raw <= UsizeMax THEN Ok(raw)
    ELSE IF build = "debug" THEN Panic
    ELSE Ok(raw % (UsizeMax + 1))

\* ------------------------------------------------------------ CircleBuffer
\* CircleBuffer::with_capacity
with_capacity(cap, build) ==
    LET n == SizingExpr(cap, build) IN
    IF n.panic THEN Aborted("PanicArithmeticOverflow")
    ELSE LET v == VecWithCapacity(n.val) IN
         IF v.panic THEN Aborted("PanicCapacityOverflow")
         ELSE Built([capacity |-> cap, vec |-> v.val, cur_start |-> 0])

\* the buffer object
Self == [capacity |-> capacity, vec |-> vec, cur_start |-> cur_start]

\* variant: answers with the reserve of the backing vector
capacity_of_Reserve(self) == self.capacity * 2 - 1

\* CircleBuffer::capacity
capacity_of(self) == self.capacity

\* variant: the occupied count, not capped at the capacity
len_Uncapped(self) == Len(self.vec)

\* CircleBuffer::len
len(self) ==
    IF Len(self.vec) > self.capacity THEN self.capacity ELSE Len(self.vec)

\* variant: compares the cursor instead of the occupied count
is_empty_Cursor(self) == self.cur_start = 0

\* CircleBuffer::is_empty
is_empty(self) == Len(self.vec) = 0

\* variant: the steady-state branch does not write the mirrored slot
push_NoMirror(self, value) ==
    IF Len(self.vec) < self.capacity THEN
        Ok([self EXCEPT !.vec = Append(@, value)])
    ELSE IF Len(self.vec) < self.capacity * 2 - 1 THEN
        LET pushedVec == Append(self.vec, value)
            w == SliceSet(pushedVec, self.cur_start, value)
        IN IF w.panic THEN [panic |-> TRUE, val |-> [self EXCEPT !.vec = pushedVec]]
           ELSE Ok([self EXCEPT !.vec = w.val, !.cur_start = @ + 1])
    ELSE
        LET w2 == SliceSet(self.vec, self.cur_start, value) IN
        IF w2.panic THEN [panic |-> TRUE, val |-> self]
        ELSE Ok([self EXCEPT !.vec = w2.val,
                             !.cur_start = IF @ + 1 >= self.capacity
                                           THEN 0 ELSE @ + 1])

\* variant: the steady-state branch compares the mirrored index with capacity * 2
push_MirrorOffByOne(self, value) ==
    IF Len(self.vec) < self.capacity THEN
        Ok([self EXCEPT !.vec = Append(@, value)])
    ELSE IF Len(self.vec) < self.capacity * 2 - 1 THEN
        LET pushedVec == Append(self.vec, value)
            w == SliceSet(pushedVec, self.cur_start, value)
        IN IF w.panic THEN [panic |-> TRUE, val |-> [self EXCEPT !.vec = pushedVec]]
           ELSE Ok([self EXCEPT !.vec = w.val, !.cur_start = @ + 1])
    ELSE
        LET index == self.cur_start + self.capacity
            w1 == IF index < self.capacity * 2
                  THEN SliceSet(self.vec, index, value)
                  ELSE Ok(self.vec)
        IN IF w1.panic THEN [panic |-> TRUE, val |-> self]
           ELSE LET w2 == SliceSet(w1.val, self.cur_start, value) IN
                IF w2.panic THEN [panic |-> TRUE, val |-> [self EXCEPT !.vec = w1.val]]
                ELSE Ok([self EXCEPT !.vec = w2.val,
                                     !.cur_start = IF @ + 1 >= self.capacity
                                                   THEN 0 ELSE @ + 1])

\* variant: the cursor wraps only when it exceeds the capacity
push_WrapLate(self, value) ==
    IF Len(self.vec) < self.capacity THEN
        Ok([self EXCEPT !.vec = Append(@, value)])
    ELSE IF Len(self.vec) < self.capacity * 2 - 1 THEN
        LET pushedVec == Append(self.vec, value)
            w == SliceSet(pushedVec, self.cur_start, value)
        IN IF w.panic THEN [panic |-> TRUE, val |-> [self EXCEPT !.vec = pushedVec]]
           ELSE Ok([self EXCEPT !.vec = w.val, !.cur_start = @ + 1])
    ELSE
        LET index == self.cur_start + self.capacity
            w1 == IF index < self.capacity * 2 - 1
                  THEN SliceSet(self.vec, index, value)
                  ELSE Ok(self.vec)
        IN IF w1.panic THEN [panic |-> TRUE, val |-> self]
           ELSE LET w2 == SliceSet(w1.val, self.cur_start, value) IN
                IF w2.panic THEN [panic |-> TRUE, val |-> [self EXCEPT !.vec = w1.val]]
                ELSE Ok([self EXCEPT !.vec = w2.val,
                                     !.cur_start = IF @ + 1 > self.capacity
                                                   THEN 0 ELSE @ + 1])

\* variant: the mirroring branch still appends at 2*capacity-1 occupied slots
push_GrowsTooFar(self, value) ==
    IF Len(self.vec) < self.capacity THEN
        Ok([self EXCEPT !.vec = Append(@, value)])
    ELSE IF Len(self.vec) <= self.capacity * 2 - 1 THEN
        LET pushedVec == Append(self.vec, value)
            w == SliceSet(pushedVec, self.cur_start, value)
        IN IF w.panic THEN [panic |-> TRUE, val |-> [self EXCEPT !.vec = pushedVec]]
           ELSE Ok([self EXCEPT !.vec = w.val, !.cur_start = @ + 1])
    ELSE
        LET index == self.cur_start + self.capacity
            w1 == IF index < self.capacity * 2 - 1
                  THEN SliceSet(self.vec, index, value)
                  ELSE Ok(self.vec)
        IN IF w1.panic THEN [panic |-> TRUE, val |-> self]
           ELSE LET w2 == SliceSet(w1.val, self.cur_start, value) IN
                IF w2.panic THEN [panic |-> TRUE, val |-> [self EXCEPT !.vec = w1.val]]
                ELSE Ok([self EXCEPT !.vec = w2.val,
                                     !.cur_start = IF @ + 1 >= self.capacity
                                                   THEN 0 ELSE @ + 1])

\* variant: the mirroring branch does not advance the cursor
push_MirrorNoAdvance(self, value) ==
    IF Len(self.vec) < self.capacity THEN
        Ok([self EXCEPT !.vec = Append(@, value)])
    ELSE IF Len(self.vec) < self.capacity * 2 - 1 THEN
        LET pushedVec == Append(self.vec, value)
            w == SliceSet(pushedVec, self.cur_start, value)
        IN IF w.panic THEN [panic |-> TRUE, val |-> [self EXCEPT !.vec = pushedVec]]
           ELSE Ok([self EXCEPT !.vec = w.val, !.cur_start = @])
    ELSE
        LET index == self.cur_start + self.capacity
            w1 == IF index < self.capacity * 2 - 1
                  THEN SliceSet(self.vec, index, value)
                  ELSE Ok(self.vec)
        IN IF w1.panic THEN [panic |-> TRUE, val |-> self]
           ELSE LET w2 == SliceSet(w1.val, self.cur_start, value) IN
                IF w2.panic THEN [panic |-> TRUE, val |-> [self EXCEPT !.vec = w1.val]]
                ELSE Ok([self EXCEPT !.vec = w2.val,
                                     !.cur_start = IF @ + 1 >= self.capacity
                                                   THEN 0 ELSE @ + 1])

\* variant: the mirroring branch appends without copying into slot cur_start
push_MirrorNoCopy(self, value) ==
    IF Len(self.vec) < self.capacity THEN
        Ok([self EXCEPT !.vec = Append(@, value)])
    ELSE IF Len(self.vec) < self.capacity * 2 - 1 THEN
        LET pushedVec == Append(self.vec, value)
            w == Ok(pushedVec)
        IN IF w.panic THEN [panic |-> TRUE, val |-> [self EXCEPT !.vec = pushedVec]]
           ELSE Ok([self EXCEPT !.vec = w.val, !.cur_start = @ + 1])
    ELSE
        LET index == self.cur_start + self.capacity
            w1 == IF index < self.capacity * 2 - 1
                  THEN SliceSet(self.vec, index, value)
                  ELSE Ok(self.vec)
        IN IF w1.panic THEN [panic |-> TRUE, val |-> self]
           ELSE LET w2 == SliceSet(w1.val, self.cur_start, value) IN
                IF w2.panic THEN [panic |-> TRUE, val |-> [self EXCEPT !.vec = w1.val]]
                ELSE Ok([self EXCEPT !.vec = w2.val,
                                     !.cur_start = IF @ + 1 >= self.capacity
                                                   THEN 0 ELSE @ + 1])

\* CircleBuffer::push; on a panic, val is the state at the panic
push(self, value) ==
    IF Len(self.vec) < self.capacity THEN
        Ok([self EXCEPT !.vec = Append(@, value)])
    ELSE IF Len(self.vec) < self.capacity * 2 - 1 THEN
        LET pushedVec == Append(self.vec, value)
            w == SliceSet(pushedVec, self.cur_start, value)
        IN IF w.panic THEN [panic |-> TRUE, val |-> [self EXCEPT !.vec = pushedVec]]
           ELSE Ok([self EXCEPT !.vec = w.val, !.cur_start = @ + 1])
    ELSE
        LET index == self.cur_start + self.capacity
            w1 == IF index < self.capacity * 2 - 1
                  THEN SliceSet(self.vec, index, value)
                  ELSE Ok(self.vec)
        IN IF w1.panic THEN [panic |-> TRUE, val |-> self]
           ELSE LET w2 == SliceSet(w1.val, self.cur_start, value) IN
                IF w2.panic THEN [panic |-> TRUE, val |-> [self EXCEPT !.vec = w1.val]]
                ELSE Ok([self EXCEPT !.vec = w2.val,
                                     !.cur_start = IF @ + 1 >= self.capacity
                                                   THEN 0 ELSE @ + 1])

\* CircleBuffer::as_slice
as_slice(self) ==
    IF Len(self.vec) < self.capacity THEN Ok(self.vec)
    ELSE SliceRange(self.vec, self.cur_start, self.cur_start + self.capacity)

\* CircleBuffer::as_mut_slice: the backing slots (0-based) the mutable
\* slice covers, in order
as_mut_slice(self) ==
    IF Len(self.vec) < self.capacity
    THEN Ok([k \in 1..Len(self.vec) |-> k - 1])
    ELSE IF self.cur_start + self.capacity <= Len(self.vec)
         THEN Ok([k \in 1..self.capacity |-> self.cur_start + k - 1])
         ELSE Panic

\* variant: slices from slot 0 instead of from the cursor
iter_FromZero(self) ==
    SliceRange(self.vec, 0, len(self))

\* CircleBuffer::iter: the elements yielded, in order
iter(self) ==
    SliceRange(self.vec, self.cur_start, self.cur_start + len(self))

\* variant: visits the slots from 0 instead of from the cursor
iter_mut_FromZero(self) ==
    IF len(self) <= Len(self.vec)
    THEN Ok([k \in 1..len(self) |-> k - 1])
    ELSE Panic

\* CircleBuffer::iter_mut: the backing slots (0-based) visited, in order
iter_mut(self) ==
    LET end_index == self.cur_start + len(self) IN
    IF end_index <= Len(self.vec)
    THEN Ok([k \in 1..len(self) |-> self.cur_start + k - 1])
    ELSE Panic

\* variant: reads the backing vector directly instead of the window
index_Raw(self, i) ==
    IF ~(i < Len(self.vec)) THEN Panic
    ELSE SliceGet(self.vec, i)

\* Index::index
index(self, i) ==
    IF ~(i < Len(self.vec)) THEN Panic
    ELSE LET s == as_slice(self) IN
         IF s.panic THEN Panic ELSE SliceGet(s.val, i)

\* variant: writes slot i of the backing vector instead of the window
index_mut_Raw(self, i, x) ==
    IF ~(i < Len(self.vec)) THEN [panic |-> TRUE, val |-> self]
    ELSE Ok([self EXCEPT !.vec[i + 1] = x])

\* variant: writes slot cur_start + i of the backing vector
index_mut_Offset(self, i, x) ==
    IF ~(i < Len(self.vec)) THEN [panic |-> TRUE, val |-> self]
    ELSE LET w == SliceSet(self.vec, self.cur_start + i, x) IN
         IF w.panic THEN [panic |-> TRUE, val |-> self]
         ELSE Ok([self EXCEPT !.vec = w.val])

\* IndexMut::index_mut followed by the assignment `buffer[i] = x`;
\* on a panic, val is the (untouched) buffer
index_mut(self, i, x) ==
    IF ~(i < Len(self.vec)) THEN [panic |-> TRUE, val |-> self]
    ELSE LET s == as_mut_slice(self) IN
         IF s.panic \/ ~(i < Len(s.val)) THEN [panic |-> TRUE, val |-> self]
         ELSE Ok([self EXCEPT !.vec[s.val[i + 1] + 1] = x])

\* `*x += k` on an element, wrapping within Values
AddAssign(x, k) == ((x - 1 + k) % NumValues) + 1

\* `for x in buffer.iter_mut() { *x += k }`; on a panic, val is the
\* (untouched) buffer
iter_mut_add(self, k) ==
    LET slots == iter_mut(self) IN
    IF slots.panic THEN [panic |-> TRUE, val |-> self]
    ELSE Ok([self EXCEPT !.vec =
                [p \in 1..Len(self.vec) |->
                    IF \E n \in 1..Len(slots.val) : slots.val[n] + 1 = p
                    THEN AddAssign(self.vec[p], k)
                    ELSE self.vec[p]]])

\* ------------------------------------------- reference bounded FIFO (ghost)
FifoPush(m, cap, v) ==
    IF Len(m) < cap THEN Append(m, v) ELSE Append(Tail(m), v)

FifoSet(m, i, x) == [m EXCEPT ![i + 1] = x]

FifoAddAll(m, k) == [n \in 1..Len(m) |-> AddAssign(m[n], k)]

\* the last n elements of s (all of s when it is shorter)
LastN(s, n) ==
    IF Len(s) <= n THEN s ELSE SubSeq(s, Len(s) - n + 1, Len(s))

Min(a, b) == IF a < b THEN a ELSE b

\* ------------------------------------------------------------------ state
NoRet == [op |-> "new", idx |-> 0, val |-> 0, panic |-> FALSE]

InitWith(rec) ==
    \E cap \in Capacities, build \in Builds :
        LET r == with_capacity(cap, build) IN
        /\ requested = cap
        /\ ctor = r.status
        /\ capacity = r.val.capacity
        /\ vec = r.val.vec
        /\ cur_start = r.val.cur_start
        /\ npushes = 0
        /\ pushed = <<>>
        /\ recording = rec
        /\ model = <<>>
        /\ ret = [NoRet EXCEPT !.panic = (r.status # "Ok")]

Init == InitWith(FALSE)

InitPush == InitWith(TRUE)

SetSelf(s) ==
    /\ capacity' = s.capacity
    /\ vec' = s.vec
    /\ cur_start' = s.cur_start

\* buffer.push(v)
Push(v) ==
    /\ ctor = "Ok"
    /\ npushes < MaxPushes
    /\ LET r == push(Self, v) IN
        /\ SetSelf(r.val)
        /\ ret' = [op |-> "push", idx |-> 0, val |-> v, panic |-> r.panic]
    /\ npushes' = npushes + 1
    /\ pushed' = IF recording THEN Append(pushed, v) ELSE pushed
    /\ model' = FifoPush(model, capacity, v)
    /\ UNCHANGED <<requested, ctor, recording>>

\* let y = buffer[i]
Index(i) ==
    /\ ctor = "Ok"
    /\ LET r == index(Self, i) IN
        ret' = [op |-> "index", idx |-> i, val |-> r.val, panic |-> r.panic]
    /\ UNCHANGED <<capacity, vec, cur_start, requested, ctor, npushes, pushed,
                   recording, model>>

\* buffer[i] = x
IndexMut(i, x) ==
    /\ ctor = "Ok"
    /\ LET r == index_mut(Self, i, x) IN
        /\ SetSelf(r.val)
        /\ ret' = [op |-> "index_mut", idx |-> i, val |-> x, panic |-> r.panic]
    /\ model' = IF i < Len(model) THEN FifoSet(model, i, x) ELSE model
    /\ UNCHANGED <<requested, ctor, npushes, pushed, recording>>

\* for x in buffer.iter_mut() { *x += k }
IterMut(k) ==
    /\ ctor = "Ok"
    /\ LET r == iter_mut_add(Self, k) IN
        /\ SetSelf(r.val)
        /\ ret' = [op |-> "iter_mut", idx |-> 0, val |-> k, panic |-> r.panic]
    /\ model' = FifoAddAll(model, k)
    /\ UNCHANGED <<requested, ctor, npushes, pushed, recording>>

\* indices the Index and IndexMut steps try: every logical position and the
\* first one past the window
Indices == 0..capacity

\* indices the claims quantify over: every slot of the backing vector and
\* beyond
AllIndices == 0..(2 * capacity)

\* the increments the IterMut steps try
Increments == 1..(NumValues - 1)

Next ==
    \/ \E v \in Values : Push(v)
    \/ \E i \in Indices : Index(i)
    \/ \E i \in Indices, x \in Values : IndexMut(i, x)
    \/ \E k \in Increments : IterMut(k)

Spec == Init /\ [][Next]_vars

\* pushes only, on a freshly created buffer
NextPush == \E v \in Values : Push(v)

SpecPush == InitPush /\ [][NextPush]_vars


\* the buffer after the step
SelfNext == [capacity |-> capacity', vec |-> vec', cur_start |-> cur_start']

\* a buffer was constructed
Constructed == ctor = "Ok"

\* --------------------------------------------------------------- claims

\* C1: for every capacity C >= 1 and N pushes v1..vN with no other
\* mutation, as_slice() is [v1..vN] when N <= C and [v_{N-C+1}..vN] when
\* N > C.
PushWindow ==
    (Constructed /\ capacity >= 1) =>
        LET N == Len(pushed)
            C == capacity
        IN /\ N = npushes
           /\ N <= C => as_slice(Self) = Ok(pushed)
           /\ N > C => as_slice(Self) = Ok(SubSeq(pushed, N - C + 1, N))

\* the window has slid past the end of the backing vector and wrapped to
\* slot 0, and holds two different values
PushWindowWitness ==
    /\ Constructed /\ capacity >= 2
    /\ Len(pushed) > 2 * capacity - 1
    /\ cur_start = 0
    /\ ret.op = "push"
    /\ as_slice(Self) = Ok(LastN(pushed, capacity))
    /\ pushed[Len(pushed)] # pushed[Len(pushed) - 1]

\* C2: after N pushes len() = min(N, C); it never exceeds C, never
\* decreases and stays C once it has reached C, while the backing vector
\* grows on to at most 2*C-1.
LenIsMin ==
    /\ [](Constructed =>
            /\ len(Self) = Min(npushes, capacity)
            /\ len(Self) <= capacity
            /\ Len(vec) <= 2 * capacity - 1)
    /\ [][Constructed =>
            /\ len(SelfNext) >= len(Self)
            /\ len(Self) = capacity => len(SelfNext) = capacity]_vars

\* the backing vector is longer than the capacity and the length reads C
LenIsMinWitness ==
    /\ Constructed /\ capacity >= 2
    /\ Len(vec) > capacity
    /\ npushes > capacity
    /\ len(Self) = capacity

\* C3: for every i in [0, len()), buffer[i] returns as_slice()[i].
IndexReadsSlice ==
    Constructed =>
        \A i \in 0..(len(Self) - 1) :
            /\ ~as_slice(Self).panic
            /\ index(Self, i) = Ok(as_slice(Self).val[i + 1])

\* an indexed read at a position other than 0 returned, after an in-place
\* write, from a window that does not start at slot 0
IndexReadsSliceWitness ==
    /\ Constructed
    /\ cur_start > 0
    /\ ret.op = "index" /\ ~ret.panic /\ ret.idx > 0
    /\ ret.val = as_slice(Self).val[ret.idx + 1]
    /\ ret.val # vec[ret.idx + 1]

\* C4: for every i in [0, len()), after buffer[i] = x a read of buffer[i]
\* returns x, every other position j in [0, len()) reads as before, and
\* len(), capacity() and the cursor are unchanged.
\* (a step that leaves ret.op = "index_mut" is the step IndexMut(i, x) with
\* i = ret'.idx and x = ret'.val)
IndexMutFrame ==
    [][(Constructed /\ ret'.op = "index_mut" /\ ret'.idx < len(Self)) =>
        LET i == ret'.idx
            x == ret'.val
        IN  /\ ~ret'.panic
            /\ index(SelfNext, i) = Ok(x)
            /\ \A j \in 0..(len(Self) - 1) :
                   j # i => index(SelfNext, j) = index(Self, j)
            /\ len(SelfNext) = len(Self)
            /\ capacity_of(SelfNext) = capacity_of(Self)
            /\ cur_start' = cur_start]_vars

\* an in-range write through a window that does not start at slot 0 has
\* returned and reads back, next to a position holding another value
IndexMutFrameWitness ==
    /\ Constructed /\ cur_start > 0
    /\ ret.op = "index_mut" /\ ~ret.panic
    /\ ret.idx < len(Self)
    /\ index(Self, ret.idx) = Ok(ret.val)
    /\ \E j \in 0..(len(Self) - 1) : j # ret.idx /\ index(Self, j) # Ok(ret.val)

\* C5: for any interleaving of pushes and in-place writes, as_slice()
\* equals the window of a reference bounded FIFO of capacity C in which an
\* in-place write replaces the element at logical position i and a push
\* appends, dropping the oldest element when full.
WindowRefinesFifo ==
    Constructed => as_slice(Self) = Ok(model)

OutOfRangeFaults ==
    Constructed =>
        /\ \A i \in AllIndices : i >= len(Self) =>
              /\ index(Self, i).panic
              /\ \A x \in Values :
                    /\ index_mut(Self, i, x).panic
                    /\ index_mut(Self, i, x).val = Self
        /\ (ret.op \in {"index", "index_mut"} /\ ret.idx >= len(Self)) => ret.panic

\* a write at an index between len() and vec.len() has faulted
OutOfRangeFaultsWitness ==
    /\ Constructed
    /\ ret.op = "index_mut" /\ ret.panic
    /\ len(Self) <= ret.idx /\ ret.idx < Len(vec)
    /\ cur_start + ret.idx < Len(vec)

\* C8: constructing with capacity 0 yields the InvalidCapacity error as the
\* result of construction, and the sizing expression is not evaluated on 0.
ZeroCapacityIsInvalid ==
    requested = 0 => ctor = "InvalidCapacity"

\* C9: is_empty() is true exactly when no push has been performed since
\* construction, and never becomes true again after the first push.
IsEmptyIffNoPush ==
    /\ [](Constructed => (is_empty(Self) <=> npushes = 0))
    /\ [][(Constructed /\ ~is_empty(Self)) => ~is_empty(SelfNext)]_vars

\* not empty after pushes and an in-range indexed write, with the cursor back at 0
IsEmptyIffNoPushWitness ==
    /\ Constructed
    /\ npushes > capacity /\ cur_start = 0
    /\ ret.op = "index_mut" /\ ~ret.panic
    /\ ~is_empty(Self)

\* C10: capacity() returns the value given at construction in every
\* reachable state.
CapacityFixed ==
    Constructed => capacity_of(Self) = requested

\* a capacity of at least 2, read in the steady-state phase after an
\* in-place iteration
CapacityFixedWitness ==
    /\ Constructed /\ requested >= 2
    /\ npushes > 2 * capacity - 1
    /\ ret.op = "iter_mut"
    /\ capacity_of(Self) = requested

PushNeverFaults ==
    Constructed =>
        /\ \A v \in Values : ~push(Self, v).panic
        /\ (capacity <= Len(vec) /\ Len(vec) < capacity * 2 - 1) =>
              cur_start < Len(vec) + 1
        /\ Len(vec) >= capacity * 2 - 1 =>
              /\ cur_start < Len(vec)
              /\ cur_start + capacity < capacity * 2 - 1 =>
                    cur_start + capacity < Len(vec)
        /\ ret.op = "push" => ~ret.panic

\* a steady-state push that wrote both slot 0 and slot C has completed
PushNeverFaultsWitness ==
    /\ Constructed /\ capacity >= 2
    /\ ret.op = "push" /\ ~ret.panic
    /\ npushes > 2 * capacity - 1
    /\ cur_start = 1
    /\ vec[1] = ret.val /\ vec[capacity + 1] = ret.val

\* C13: the cursor lies in [0, C), and whenever the occupied length is at
\* least C, cursor + C <= vec.len(), so as_slice(), as_mut_slice(), iter()
\* and iter_mut() never slice out of bounds.
WindowInBounds ==
    Constructed =>
        /\ 0 <= cur_start /\ cur_start < capacity
        /\ Len(vec) >= capacity => cur_start + capacity <= Len(vec)
        /\ ~as_slice(Self).panic
        /\ ~as_mut_slice(Self).panic
        /\ ~iter(Self).panic
        /\ ~iter_mut(Self).panic

\* the window ends exactly at the last slot of the full backing vector
WindowInBoundsWitness ==
    /\ Constructed /\ capacity >= 2
    /\ Len(vec) = 2 * capacity - 1
    /\ cur_start = capacity - 1
    /\ as_slice(Self) = Ok(SubSeq(vec, capacity, 2 * capacity - 1))

\* C14: the occupied length of the backing vector is always in [0, 2*C-1]
\* and never shrinks: a push increases it by exactly one while it is below
\* 2*C-1 and leaves it unchanged once it equals 2*C-1, so after N pushes it
\* equals min(N, 2*C-1).
OccupiedLength ==
    /\ [](Constructed =>
            /\ 0 <= Len(vec) /\ Len(vec) <= 2 * capacity - 1
            /\ Len(vec) = Min(npushes, 2 * capacity - 1))
    /\ [][Constructed =>
            /\ Len(vec') >= Len(vec)
            /\ ret'.op = "push" =>
                  Len(vec') = IF Len(vec) < 2 * capacity - 1
                              THEN Len(vec) + 1 ELSE Len(vec)]_vars

\* a push has left the full backing vector at 2*C-1 slots
OccupiedLengthWitness ==
    /\ Constructed /\ capacity >= 2
    /\ ret.op = "push"
    /\ npushes > 2 * capacity - 1
    /\ Len(vec) = 2 * capacity - 1

\* C15: after N pushes the cursor is 0 when N <= C and (N - C) mod C when
\* N > C; throughout the mirroring phase it equals vec.len() - C.
CursorPosition ==
    Constructed =>
        /\ npushes <= capacity => cur_start = 0
        /\ npushes > capacity => cur_start = (npushes - capacity) % capacity
        /\ (capacity <= npushes /\ npushes <= 2 * capacity - 1) =>
              cur_start = Len(vec) - capacity

\* the cursor has gone through the mirroring phase, reached C - 1 and
\* wrapped to 0
CursorPositionWitness ==
    /\ Constructed /\ capacity >= 2
    /\ ret.op = "push"
    /\ npushes = 2 * capacity
    /\ cur_start = 0

\* C16: a steady-state push (occupied length 2*C-1) with cursor c writes
\* the value to slot c and, only when c + C < 2*C-1, also to slot c + C;
\* every other backing slot and the occupied length are unchanged.
\* (a step that leaves ret.op = "push" is the step Push(ret'.val))
SteadyPushFrame ==
    [][(Constructed /\ ret'.op = "push" /\ Len(vec) = 2 * capacity - 1) =>
        LET c == cur_start
            v == ret'.val
        IN /\ Len(vec') = Len(vec)
           /\ \A p \in 0..(Len(vec) - 1) :
                 vec'[p + 1] =
                    IF p = c \/ (p = c + capacity /\ c + capacity < 2 * capacity - 1)
                    THEN v ELSE vec[p + 1]]_vars

\* a steady-state push at cursor 0 wrote slots 0 and C and left a slot
\* holding another value
SteadyPushFrameWitness ==
    /\ Constructed /\ capacity >= 2
    /\ ret.op = "push" /\ ~ret.panic
    /\ npushes > 2 * capacity
    /\ cur_start = 1
    /\ vec[1] = ret.val /\ vec[capacity + 1] = ret.val
    /\ vec[2] # ret.val

\* C17: in every state reachable by pushes alone, for every backing index
\* i with i + C < vec.len(), vec[i] = vec[i + C].
CopiesInSync ==
    Constructed =>
        \A i \in 0..(Len(vec) - 1) :
            i + capacity < Len(vec) => vec[i + 1] = vec[i + capacity + 1]

\* a full backing vector after a steady-state push, holding two values,
\* with slot 0 equal to slot C
CopiesInSyncWitness ==
    /\ Constructed /\ capacity >= 2
    /\ recording /\ Len(pushed) > 2 * capacity - 1
    /\ Len(vec) = 2 * capacity - 1
    /\ vec[1] = vec[capacity + 1]
    /\ vec[1] # vec[2]
====
